---- MODULE Spec2Model ----
(***************************************************************************)
(* express-oauth-server: the Express adapter of the oauth2-server engine.  *)
(* The module models src/index.js as it is loaded: the file holds two     *)
(* copies of the adapter and the second one (lines 215-416) overwrites the *)
(* first, so the second copy is the program.                               *)
(*                                                                         *)
(* One adapter instance serves requests in slots 1..MaxInFlight; a slot     *)
(* serves one request after the other.  Every request runs the bluebird    *)
(* promise chain of its middleware one handler at a time, and handlers of  *)
(* requests in different slots interleave freely.  The Express response    *)
(* object of a request is modelled by the sequence of calls made on it     *)
(* (trace), with the calls of next and the write of res.locals.oauth.      *)
(***************************************************************************)
EXTENDS Integers, Sequences, FiniteSets, TLC

VARIABLES
  options,              \* what the constructor was called with ("unset" before the call)
  constructed,          \* "none" | "thrown" | "ready": outcome of new ExpressOAuthServer(options)
  engines,              \* how many times new NodeOAuthServer(options) ran
  useErrorHandler,      \* this.useErrorHandler of the adapter instance
  invalidTokenOnRevoke, \* this.invalidTokenOnRevoke of the adapter instance
  reqs                  \* slot -> the state of the invocation in that slot

vars == <<options, constructed, engines, useErrorHandler, invalidTokenOnRevoke, reqs>>

(***************************************************************************)
(* Bounds.                                                                 *)
(***************************************************************************)
MaxInFlight == 1

Slots == 1..MaxInFlight

(***************************************************************************)
(* Inputs.                                                                 *)
(***************************************************************************)
Flows == {"authenticate", "authorize", "token", "revoke"}

\* What the engine fulfils with: a token or an authorization code.
Values == {"v1", "v2"}

HeaderNames == {"location", "cache-control"}

HeaderValue(n) == IF n = "location" THEN "/cb" ELSE "no-store"

\* response.headers as the engine leaves it: a map from lower-cased names.
HeaderMaps ==
  { [n \in S |-> HeaderValue(n)] : S \in {{"cache-control"}, {"location", "cache-control"}} }

NoHeaders == [n \in {} |-> ""]

Statuses == {200, 301, 302}

Payload == [kind |-> "payload", data |-> "engine-body"]

EmptyBody == [kind |-> "empty"]

ErrorKinds == {"UnauthorizedRequestError", "InvalidTokenError", "OAuthError"}

ErrorCodes == {400, 401}

ErrorName(k) ==
  IF k = "UnauthorizedRequestError" THEN "unauthorized_request"
  ELSE IF k = "InvalidTokenError" THEN "invalid_token"
  ELSE "invalid_request"

\* The protocol errors the engine rejects with: each carries code, name, message.
ProtocolErrors ==
  { [kind |-> k, code |-> c, name |-> ErrorName(k), message |-> "bad"] :
      k \in ErrorKinds, c \in ErrorCodes }

\* What a call on an Express response raises once its headers were sent: a
\* plain Error, which carries no HTTP status (code 0).
HeadersSentError == [kind |-> "Error", code |-> 0, name |-> "Error", message |-> "headers-sent"]

NoError == [kind |-> "none"]

\* The values options.useErrorHandler is given at construction.
OptionValues == {"undefined", "false", "true"}

Truthy(v) == v = "true"

(***************************************************************************)
(* Calls on the Express response, and next.                                *)
(***************************************************************************)
ResSet(h) == [op |-> "set", headers |-> h]
ResStatus(c) == [op |-> "status", code |-> c]
ResSend(b) == [op |-> "send", body |-> b]
ResRedirect(u) == [op |-> "redirect", url |-> u]
CallNext(e) == [op |-> "next", err |-> e]
SetLocals(k, v) == [op |-> "locals", key |-> k, value |-> v]
Raised == [op |-> "raise"]

\* res.set, res.send and res.redirect write headers: they raise on a response
\* whose headers were already sent; res.status only stores the code.
Raises(call, headersSent) ==
  headersSent /\ call.op \in {"set", "send", "redirect"}

RECURSIVE Perform(_, _)
\* Run the calls in order up to the first one that raises.
Perform(calls, headersSent) ==
  IF calls = <<>> THEN [done |-> <<>>, threw |-> FALSE]
  ELSE IF Raises(Head(calls), headersSent) THEN [done |-> <<Raised>>, threw |-> TRUE]
  ELSE LET rest == Perform(Tail(calls), headersSent)
       IN [done |-> <<Head(calls)>> \o rest.done, threw |-> rest.threw]

HeaderGet(h, n) == IF n \in DOMAIN h THEN h[n] ELSE "undefined"

HeaderDelete(h, n) == [m \in DOMAIN h \ {n} |-> h[m]]

(***************************************************************************)
(* handleResponse (src/index.js 365-377).                                  *)
(***************************************************************************)
\* response.headers after handleResponse: location is deleted on a 302.
handleResponseHeaders(response) ==
  IF response.status = 302 THEN HeaderDelete(response.headers, "location")
  ELSE response.headers

\* handleResponse without line 369: location stays among the applied headers.
handleResponseKeepsLocation(response) ==
  IF response.status = 302
  THEN <<ResSet(response.headers), ResRedirect(HeaderGet(response.headers, "location"))>>
  ELSE <<ResSet(response.headers), ResStatus(response.status), ResSend(response.body)>>

\* handleResponse redirecting on every 3xx status.
handleResponseRedirects3xx(response) ==
  IF response.status \in {301, 302}
  THEN LET location == HeaderGet(response.headers, "location")
       IN <<ResSet(HeaderDelete(response.headers, "location")), ResRedirect(location)>>
  ELSE <<ResSet(response.headers), ResStatus(response.status), ResSend(response.body)>>

handleResponse(response) ==
  IF response.status = 302
  THEN LET location == HeaderGet(response.headers, "location")
       IN <<ResSet(HeaderDelete(response.headers, "location")), ResRedirect(location)>>
  ELSE <<ResSet(response.headers), ResStatus(response.status), ResSend(response.body)>>

(***************************************************************************)
(* handleError (src/index.js 383-410).  self is the object handleError     *)
(* runs on (its this); hasResponse tells whether response is not null.     *)
(***************************************************************************)
\* handleError with the tests of lines 391 and 404 in the other order.
handleErrorFlagFirst(self, e, response, hasResponse) ==
  IF self.useErrorHandler = TRUE
  THEN <<CallNext(e)>>
  ELSE (IF hasResponse THEN <<ResSet(response.headers)>> ELSE <<>>) \o
       (IF self.invalidTokenOnRevoke
        THEN <<ResStatus(200), ResSend(EmptyBody)>>
        ELSE IF e.kind = "UnauthorizedRequestError"
        THEN <<ResStatus(e.code)>>
        ELSE <<ResStatus(e.code),
               ResSend([kind |-> "json", error |-> e.name, error_description |-> e.message])>>)

handleError(self, e, response, hasResponse) ==
  IF self.useErrorHandler = TRUE
  THEN <<CallNext(e)>>
  ELSE (IF hasResponse THEN <<ResSet(response.headers)>> ELSE <<>>) \o
       (IF e.kind = "UnauthorizedRequestError"
        THEN <<ResStatus(e.code)>>
        ELSE IF self.invalidTokenOnRevoke
        THEN <<ResStatus(200), ResSend(EmptyBody)>>
        ELSE <<ResStatus(e.code),
               ResSend([kind |-> "json", error |-> e.name, error_description |-> e.message])>>)

\* The adapter instance, as the handlers bound to it see it.
Adapter == [useErrorHandler |-> useErrorHandler, invalidTokenOnRevoke |-> invalidTokenOnRevoke]

\* A plain call handleError(...) runs on the global object of a sloppy-mode
\* module: neither property is defined there.
GlobalObject == [useErrorHandler |-> FALSE, invalidTokenOnRevoke |-> FALSE]

(***************************************************************************)
(* State of one invocation.                                                *)
(***************************************************************************)
\* response is the Response the engine mutates; returned records it as the
\* engine left it when its operation settled.  settle is the state of the
\* promise the middleware returned and reason what it is rejected with.
IdleReq ==
  [pc |-> "idle", flow |-> "none", headersSent |-> FALSE, fulfilled |-> FALSE,
   value |-> "none", error |-> NoError,
   response |-> [status |-> 200, headers |-> NoHeaders, body |-> EmptyBody],
   returned |-> [status |-> 200, headers |-> NoHeaders, body |-> EmptyBody],
   settle |-> "pending", reason |-> NoError, trace |-> <<>>]

Init ==
  /\ options = "unset"
  /\ constructed = "none"
  /\ engines = 0
  /\ useErrorHandler = FALSE
  /\ invalidTokenOnRevoke = FALSE
  /\ reqs = [r \in Slots |-> IdleReq]

(***************************************************************************)
(* Constructor (src/index.js 231-242).                                     *)
(***************************************************************************)
\* The argument of the constructor: no options at all, options without
\* model, options with model.
ConstructorOptions == {"undefined", "without-model", "with-model"}

\* A constructor without the test of line 234.
missingModelIgnored(o) == FALSE

\* options = options || {}; !options.model (src/index.js 232-234).
missingModel(o) == o # "with-model"

\* "thrown": the constructor threw InvalidArgumentError (line 235).
Construct ==
  /\ constructed = "none"
  /\ \E o \in ConstructorOptions, opt \in OptionValues :
       /\ options' = o
       /\ IF missingModel(o)
          THEN /\ constructed' = "thrown"
               /\ UNCHANGED <<engines, useErrorHandler>>
          ELSE /\ constructed' = "ready"
               /\ useErrorHandler' = Truthy(opt)
               /\ engines' = engines + 1
  /\ UNCHANGED <<invalidTokenOnRevoke, reqs>>

(***************************************************************************)
(* The middleware function: builds Request and Response and the chain.     *)
(***************************************************************************)
Invoke(r) ==
  /\ constructed = "ready"
  /\ reqs[r].pc = "idle"
  /\ \E f \in Flows, sent \in BOOLEAN :
       reqs' = [reqs EXCEPT ![r] = [IdleReq EXCEPT !.pc = "call", !.flow = f,
                                                    !.headersSent = sent]]
  /\ UNCHANGED <<options, constructed, engines, useErrorHandler, invalidTokenOnRevoke>>

\* First then-handler: this.server.<flow>(request, response, options).
CallEngine(r) ==
  /\ reqs[r].pc = "call"
  /\ reqs' = [reqs EXCEPT ![r].pc = "engine"]
  /\ UNCHANGED <<options, constructed, engines, useErrorHandler, invalidTokenOnRevoke>>

\* The engine operation fulfils, having populated response.
EngineFulfil(r) ==
  /\ reqs[r].pc = "engine"
  /\ \E v \in Values, s \in Statuses, h \in HeaderMaps :
       reqs' = [reqs EXCEPT ![r].pc = IF reqs[r].flow = "revoke" THEN "respond" ELSE "tap",
                            ![r].fulfilled = TRUE,
                            ![r].value = IF reqs[r].flow = "revoke" THEN "undefined" ELSE v,
                            ![r].response = [status |-> s, headers |-> h, body |-> Payload],
                            ![r].returned = [status |-> s, headers |-> h, body |-> Payload]]
  /\ UNCHANGED <<options, constructed, engines, useErrorHandler, invalidTokenOnRevoke>>

\* The engine operation rejects with a protocol error; it may have set headers.
EngineReject(r) ==
  /\ reqs[r].pc = "engine"
  /\ \E e \in ProtocolErrors, h \in HeaderMaps :
       reqs' = [reqs EXCEPT ![r].pc = "catch",
                            ![r].error = e,
                            ![r].response = [status |-> 200, headers |-> h, body |-> EmptyBody],
                            ![r].returned = [status |-> 200, headers |-> h, body |-> EmptyBody]]
  /\ UNCHANGED <<options, constructed, engines, useErrorHandler, invalidTokenOnRevoke>>

(***************************************************************************)
(* How the promise of a catch handler settles: fulfilled when handleError  *)
(* returns, rejected with what a call on res raised otherwise.  e is the   *)
(* error the handler caught.                                               *)
(***************************************************************************)
\* A catch handler that throws the error it caught again.
catchSettleRethrows(threw, e) == [settle |-> "rejected", reason |-> e]

catchSettle(threw, e) ==
  IF threw THEN [settle |-> "rejected", reason |-> HeadersSentError]
  ELSE [settle |-> "fulfilled", reason |-> NoError]

(***************************************************************************)
(* Handlers of the promise chains.                                         *)
(***************************************************************************)
Append2(r, calls) == reqs[r].trace \o calls

\* authenticate, .tap (src/index.js 261-264).
\* The tap with its two statements swapped.
authenticateTapNextFirst(token) == <<CallNext(NoError), SetLocals("token", token)>>

authenticateTap(token) == <<SetLocals("token", token), CallNext(NoError)>>

AuthenticateTap(r) ==
  /\ reqs[r].pc = "tap"
  /\ reqs[r].flow = "authenticate"
  /\ reqs' = [reqs EXCEPT ![r].pc = "settled",
                          ![r].settle = "fulfilled",
                          ![r].trace = Append2(r, authenticateTap(reqs[r].value))]
  /\ UNCHANGED <<options, constructed, engines, useErrorHandler, invalidTokenOnRevoke>>

\* authenticate, .catch (src/index.js 265-267): handleError is called plainly,
\* with null for response.
\* The catch followed by next(), as .finally(next) does in the other flows.
authenticateCatchThenNext(e, response) ==
  handleError(GlobalObject, e, response, FALSE) \o <<CallNext(NoError)>>

authenticateCatch(e, response) == handleError(GlobalObject, e, response, FALSE)

AuthenticateCatch(r) ==
  /\ reqs[r].pc = "catch"
  /\ reqs[r].flow = "authenticate"
  /\ LET out == Perform(authenticateCatch(reqs[r].error, reqs[r].response),
                        reqs[r].headersSent)
     IN reqs' = [reqs EXCEPT ![r].pc = "settled",
                             ![r].settle = catchSettle(out.threw, reqs[r].error).settle,
                             ![r].reason = catchSettle(out.threw, reqs[r].error).reason,
                             ![r].trace = Append2(r, out.done)]
  /\ UNCHANGED <<options, constructed, engines, useErrorHandler, invalidTokenOnRevoke>>

\* authorize and token, .tap (src/index.js 288-290, 318-320).
\* A tap that attaches everything under token.
issueTapWrongKey(flow, value) == <<SetLocals("token", value)>>

\* A tap that attaches nothing.
issueTapNothing(flow, value) == <<>>

issueTap(flow, value) ==
  <<SetLocals(IF flow = "authorize" THEN "code" ELSE "token", value)>>

IssueTap(r) ==
  /\ reqs[r].pc = "tap"
  /\ reqs[r].flow \in {"authorize", "token"}
  /\ reqs' = [reqs EXCEPT ![r].pc = "respond",
                          ![r].trace = Append2(r, issueTap(reqs[r].flow, reqs[r].value))]
  /\ UNCHANGED <<options, constructed, engines, useErrorHandler, invalidTokenOnRevoke>>

\* authorize, token and revoke, .then (src/index.js 291-293, 321-323, 348-350).
ThenHandleResponse(r) ==
  /\ reqs[r].pc = "respond"
  /\ LET out == Perform(handleResponse(reqs[r].response), reqs[r].headersSent)
     IN reqs' = [reqs EXCEPT ![r].pc = IF out.threw THEN "catch" ELSE "finally",
                             ![r].settle = IF out.threw THEN "pending" ELSE "fulfilled",
                             ![r].error = IF out.threw THEN HeadersSentError ELSE NoError,
                             ![r].response.headers = handleResponseHeaders(reqs[r].response),
                             ![r].trace = Append2(r, out.done)]
  /\ UNCHANGED <<options, constructed, engines, useErrorHandler, invalidTokenOnRevoke>>

\* authorize and token, .catch (src/index.js 294-296, 324-326).
\* The catch passing null for response, as authenticate does.
flowCatchNullResponse(self, e, response) == handleError(self, e, response, FALSE)

flowCatch(self, e, response) == handleError(self, e, response, TRUE)

FlowCatch(r) ==
  /\ reqs[r].pc = "catch"
  /\ reqs[r].flow \in {"authorize", "token"}
  /\ LET out == Perform(flowCatch(Adapter, reqs[r].error, reqs[r].response),
                        reqs[r].headersSent)
     IN reqs' = [reqs EXCEPT ![r].pc = "finally",
                             ![r].settle = catchSettle(out.threw, reqs[r].error).settle,
                             ![r].reason = catchSettle(out.threw, reqs[r].error).reason,
                             ![r].trace = Append2(r, out.done)]
  /\ UNCHANGED <<options, constructed, engines, useErrorHandler, invalidTokenOnRevoke>>

\* revoke, .catch (src/index.js 351-357): the flag is stored on this.
\* The catch without lines 352-354.
revokeMarkNever(flag, e) == flag

revokeMark(flag, e) == flag \/ e.kind = "InvalidTokenError"

RevokeCatch(r) ==
  /\ reqs[r].pc = "catch"
  /\ reqs[r].flow = "revoke"
  /\ invalidTokenOnRevoke' = revokeMark(invalidTokenOnRevoke, reqs[r].error)
  /\ LET self == [Adapter EXCEPT !.invalidTokenOnRevoke = invalidTokenOnRevoke']
         out == Perform(handleError(self, reqs[r].error, reqs[r].response, TRUE),
                        reqs[r].headersSent)
     IN reqs' = [reqs EXCEPT ![r].pc = "finally",
                             ![r].settle = catchSettle(out.threw, reqs[r].error).settle,
                             ![r].reason = catchSettle(out.threw, reqs[r].error).reason,
                             ![r].trace = Append2(r, out.done)]
  /\ UNCHANGED <<options, constructed, engines, useErrorHandler>>

\* authorize, token and revoke, .finally(next) (src/index.js 297, 327, 358):
\* bluebird calls the handler without arguments and keeps the outcome.
\* A chain without .finally(next).
finallyCallsNone == <<>>

finallyCalls == <<CallNext(NoError)>>

Finally(r) ==
  /\ reqs[r].pc = "finally"
  /\ reqs' = [reqs EXCEPT ![r].pc = "settled",
                          ![r].trace = Append2(r, finallyCalls)]
  /\ UNCHANGED <<options, constructed, engines, useErrorHandler, invalidTokenOnRevoke>>

\* The invocation is over and its request and response objects are dropped.
Retire(r) ==
  /\ reqs[r].pc = "settled"
  /\ reqs' = [reqs EXCEPT ![r] = IdleReq]
  /\ UNCHANGED <<options, constructed, engines, useErrorHandler, invalidTokenOnRevoke>>

Next ==
  \/ Construct
  \/ \E r \in Slots : Invoke(r)
  \/ \E r \in Slots : CallEngine(r)
  \/ \E r \in Slots : EngineFulfil(r)
  \/ \E r \in Slots : EngineReject(r)
  \/ \E r \in Slots : AuthenticateTap(r)
  \/ \E r \in Slots : AuthenticateCatch(r)
  \/ \E r \in Slots : IssueTap(r)
  \/ \E r \in Slots : ThenHandleResponse(r)
  \/ \E r \in Slots : FlowCatch(r)
  \/ \E r \in Slots : RevokeCatch(r)
  \/ \E r \in Slots : Finally(r)
  \/ \E r \in Slots : Retire(r)

Spec == Init /\ [][Next]_vars

(***************************************************************************)
(* Reading a trace.                                                        *)
(***************************************************************************)
IsNext(c) == c.op = "next"
IsRes(c) == c.op \in {"set", "status", "send", "redirect"}
IsWrite(c) == c.op \in {"status", "send", "redirect"}

NextCalls(r) == SelectSeq(reqs[r].trace, IsNext)
ResCalls(r) == SelectSeq(reqs[r].trace, IsRes)
Writes(r) == SelectSeq(reqs[r].trace, IsWrite)

NoRaise(r) == \A i \in DOMAIN reqs[r].trace : reqs[r].trace[i].op # "raise"

\* The engine operation of the invocation in slot r rejected.
EngineFailed(r) == reqs[r].error \in ProtocolErrors

\* The catch handler of the invocation has run on an engine failure.
Translated(r) == EngineFailed(r) /\ reqs[r].pc \in {"finally", "settled"}

Over(r) == reqs[r].pc = "settled"

JsonBody(e) == [kind |-> "json", error |-> e.name, error_description |-> e.message]

(***************************************************************************)
(* C1: every invocation of authorize, token or revoke calls next exactly   *)
(* once in total, on every exit path.  The code calls it twice when        *)
(* useErrorHandler is true and the chain reaches the catch handler.        *)
(***************************************************************************)
C1_NextExactlyOnce ==
  \A r \in Slots :
    (Over(r) /\ reqs[r].flow \in {"authorize", "token", "revoke"})
      => Len(NextCalls(r)) = 1

OwnFlag(r) == reqs[r].flow = "revoke" /\ reqs[r].error.kind = "InvalidTokenError"

C3_FlagIsRequestScoped ==
  \A r \in Slots :
    (Translated(r) /\ reqs[r].flow # "authenticate" /\ NoRaise(r))
      => ResCalls(r) =
           SelectSeq(handleError([useErrorHandler |-> useErrorHandler,
                                  invalidTokenOnRevoke |-> OwnFlag(r)],
                                 reqs[r].error, reqs[r].returned, TRUE), IsRes)

(***************************************************************************)
(* C4: with useErrorHandler true, a protocol error of any of the four      *)
(* flows is handed to next(error) and nothing is written to the response.  *)
(* authenticate writes status and body instead.                            *)
(***************************************************************************)
C4_ErrorHandlerGetsEveryError ==
  \A r \in Slots :
    (Translated(r) /\ useErrorHandler)
      => /\ ResCalls(r) = <<>>
         /\ \E i \in DOMAIN reqs[r].trace : reqs[r].trace[i] = CallNext(reqs[r].error)

(***************************************************************************)
(* C5: with useErrorHandler false, a revoke that fails with an             *)
(* InvalidTokenError answers 200 with an empty body, whatever the code of  *)
(* the error (the response accepting the calls).                           *)
(***************************************************************************)
C5_RevokeInvalidTokenIs200 ==
  \A r \in Slots :
    (Translated(r) /\ reqs[r].flow = "revoke" /\ ~useErrorHandler
       /\ reqs[r].error.kind = "InvalidTokenError" /\ NoRaise(r))
      => Writes(r) = <<ResStatus(200), ResSend(EmptyBody)>>

C5_Witness ==
  \E r \in Slots :
    /\ Over(r) /\ reqs[r].flow = "revoke" /\ ~useErrorHandler
    /\ reqs[r].error.kind = "InvalidTokenError" /\ reqs[r].error.code = 400
    /\ Writes(r) = <<ResStatus(200), ResSend(EmptyBody)>>

(***************************************************************************)
(* C6: a revoke that fails with an InvalidTokenError ends in a             *)
(* success-like response for both values of useErrorHandler: no error      *)
(* goes to next and the response is the 200 one.  With useErrorHandler     *)
(* true the code hands the error to next and writes nothing.               *)
(***************************************************************************)
C6_RevokeInvalidTokenNeverAnError ==
  \A r \in Slots :
    (Translated(r) /\ reqs[r].flow = "revoke"
       /\ reqs[r].error.kind = "InvalidTokenError" /\ NoRaise(r))
      => /\ \A i \in DOMAIN NextCalls(r) : NextCalls(r)[i].err = NoError
         /\ \E i \in DOMAIN reqs[r].trace : reqs[r].trace[i] = ResStatus(200)

(***************************************************************************)
(* C7: with useErrorHandler false, a failure that is neither an            *)
(* UnauthorizedRequestError nor an InvalidTokenError of a revoke answers   *)
(* with the code of the error and the body {error, error_description}, in  *)
(* all four flows.                                                         *)
(***************************************************************************)
C7_GenericErrorBody ==
  \A r \in Slots :
    (Translated(r) /\ ~useErrorHandler /\ NoRaise(r)
       /\ reqs[r].error.kind # "UnauthorizedRequestError"
       /\ ~(reqs[r].flow = "revoke" /\ reqs[r].error.kind = "InvalidTokenError"))
      => Writes(r) = <<ResStatus(reqs[r].error.code), ResSend(JsonBody(reqs[r].error))>>

(***************************************************************************)
(* C8: with useErrorHandler false, an UnauthorizedRequestError sets the    *)
(* status to the code of the error and writes no body, whatever the state  *)
(* of the invalidTokenOnRevoke flag.                                       *)
(***************************************************************************)
C8_UnauthorizedStatusOnly ==
  \A r \in Slots :
    (Translated(r) /\ ~useErrorHandler /\ NoRaise(r)
       /\ reqs[r].error.kind = "UnauthorizedRequestError")
      => Writes(r) = <<ResStatus(reqs[r].error.code)>>

C8_Witness ==
  \E r \in Slots :
    /\ Over(r) /\ ~useErrorHandler /\ invalidTokenOnRevoke
    /\ reqs[r].flow = "revoke"
    /\ reqs[r].error.kind = "UnauthorizedRequestError"
    /\ Writes(r) = <<ResStatus(reqs[r].error.code)>>

(***************************************************************************)
(* C9: when the engine's authenticate fulfils with a token, res.locals     *)
(* .oauth.token is that token and it is written before next is called.     *)
(***************************************************************************)
C9_TokenBeforeNext ==
  \A r \in Slots :
    (Over(r) /\ reqs[r].flow = "authenticate" /\ reqs[r].fulfilled)
      => \E i \in DOMAIN reqs[r].trace :
           /\ reqs[r].trace[i] = SetLocals("token", reqs[r].value)
           /\ \A j \in DOMAIN reqs[r].trace :
                /\ reqs[r].trace[j].op = "locals" => j = i
                /\ reqs[r].trace[j].op = "next" => j > i
           /\ \E j \in DOMAIN reqs[r].trace : reqs[r].trace[j].op = "next"

C9_Witness ==
  \E r \in Slots :
    /\ Over(r) /\ reqs[r].flow = "authenticate" /\ reqs[r].fulfilled
    /\ reqs[r].value = "v2"
    /\ reqs[r].trace = <<SetLocals("token", "v2"), CallNext(NoError)>>

(***************************************************************************)
(* C10: when authorize or token succeeds with status 302, the response is  *)
(* redirected to the location the engine returned, after the other headers *)
(* the engine set, and only those, were applied.                           *)
(***************************************************************************)
C10_RedirectWithoutLocation ==
  \A r \in Slots :
    (reqs[r].flow \in {"authorize", "token"} /\ reqs[r].fulfilled
       /\ reqs[r].pc \in {"finally", "settled"}
       /\ reqs[r].returned.status = 302 /\ NoRaise(r))
      => /\ Len(ResCalls(r)) = 2
         /\ ResCalls(r)[2] = ResRedirect(HeaderGet(reqs[r].returned.headers, "location"))
         /\ ResCalls(r)[1].op = "set"
         /\ DOMAIN ResCalls(r)[1].headers = DOMAIN reqs[r].returned.headers \ {"location"}
         /\ \A n \in DOMAIN ResCalls(r)[1].headers :
              ResCalls(r)[1].headers[n] = reqs[r].returned.headers[n]

C10_Witness ==
  \E r \in Slots :
    /\ Over(r) /\ reqs[r].flow = "token" /\ reqs[r].fulfilled
    /\ reqs[r].returned.status = 302
    /\ DOMAIN reqs[r].returned.headers = {"location", "cache-control"}
    /\ ResCalls(r) = <<ResSet([n \in {"cache-control"} |-> "no-store"]), ResRedirect("/cb")>>

(***************************************************************************)
(* C11: constructing the adapter without model, or without options, fails  *)
(* with InvalidArgumentError and never constructs the engine; with model   *)
(* the engine is constructed exactly once.                                 *)
(***************************************************************************)
C11_ModelRequired ==
  /\ options \in {"undefined", "without-model"} => (constructed = "thrown" /\ engines = 0)
  /\ options = "with-model" => (constructed = "ready" /\ engines = 1)
  /\ options = "unset" => (constructed = "none" /\ engines = 0)

C11_Witness == options = "undefined" /\ constructed = "thrown" /\ engines = 0

(***************************************************************************)
(* C12: in authorize, token and revoke the finalizer advances the pipeline *)
(* after response or error translation is over, also when the translation  *)
(* raised: its next() is the last call of the invocation.                  *)
(***************************************************************************)
C12_AdvanceAfterTranslation ==
  \A r \in Slots :
    (Over(r) /\ reqs[r].flow \in {"authorize", "token", "revoke"})
      => /\ reqs[r].trace # <<>>
         /\ reqs[r].trace[Len(reqs[r].trace)] = CallNext(NoError)
         /\ \A i \in DOMAIN reqs[r].trace :
              (IsRes(reqs[r].trace[i]) \/ reqs[r].trace[i].op = "raise")
                => i < Len(reqs[r].trace)
         /\ Len(reqs[r].trace) > 1

\* handleResponse raised, then handleError raised, and next was still called.
C12_Witness ==
  \E r \in Slots :
    /\ Over(r) /\ reqs[r].flow = "token" /\ reqs[r].fulfilled
    /\ reqs[r].trace = <<SetLocals("token", reqs[r].value), Raised, Raised, CallNext(NoError)>>

(***************************************************************************)
(* C13: for every status other than 302 the response translator applies    *)
(* all headers of the ProtocolResponse, location included, sets its status *)
(* and sends its body unchanged; it does not redirect.                     *)
(***************************************************************************)
C13_NonRedirectVerbatim ==
  \A r \in Slots :
    (reqs[r].flow \in {"authorize", "token", "revoke"} /\ reqs[r].fulfilled
       /\ reqs[r].pc \in {"finally", "settled"}
       /\ reqs[r].returned.status # 302 /\ NoRaise(r))
      => /\ ResCalls(r) = <<ResSet(reqs[r].returned.headers),
                            ResStatus(reqs[r].returned.status),
                            ResSend(reqs[r].returned.body)>>
         /\ reqs[r].response = reqs[r].returned

C13_Witness ==
  \E r \in Slots :
    /\ Over(r) /\ reqs[r].flow = "revoke" /\ reqs[r].fulfilled
    /\ reqs[r].returned.status = 301
    /\ "location" \in DOMAIN reqs[r].returned.headers
    /\ ResCalls(r) = <<ResSet(reqs[r].returned.headers), ResStatus(301), ResSend(Payload)>>

(***************************************************************************)
(* C14: when authorize (token) succeeds, res.locals.oauth is set to the    *)
(* issued code (token) and the response translation still runs after it:   *)
(* the response is sent or redirected, or the call doing so raised.        *)
(***************************************************************************)
LocalsKey(flow) == IF flow = "authorize" THEN "code" ELSE "token"

C14_AttachThenTranslate ==
  \A r \in Slots :
    (reqs[r].flow \in {"authorize", "token"} /\ reqs[r].fulfilled
       /\ reqs[r].pc \in {"finally", "settled"})
      => /\ Len(reqs[r].trace) >= 2
         /\ reqs[r].trace[1] = SetLocals(LocalsKey(reqs[r].flow), reqs[r].value)
         /\ reqs[r].trace[2] \in {ResSet(handleResponseHeaders(reqs[r].returned)), Raised}
         /\ NoRaise(r) =>
              \E i \in DOMAIN reqs[r].trace :
                i > 2 /\ reqs[r].trace[i].op \in {"send", "redirect"}

C14_Witness ==
  \E r \in Slots :
    /\ Over(r) /\ reqs[r].flow = "authorize" /\ reqs[r].fulfilled
    /\ reqs[r].trace = <<SetLocals("code", "v1"), ResSet(reqs[r].returned.headers),
                          ResStatus(200), ResSend(Payload), CallNext(NoError)>>

(***************************************************************************)
(* C15: with useErrorHandler false the error translator applies the        *)
(* headers of the ProtocolResponse before any status or body in a failed   *)
(* authorize, token or revoke, and applies no headers in a failed          *)
(* authenticate.                                                           *)
(***************************************************************************)
C15_HeadersFirstIffResponse ==
  \A r \in Slots :
    (Translated(r) /\ ~useErrorHandler /\ NoRaise(r))
      => IF reqs[r].flow = "authenticate"
         THEN \A i \in DOMAIN reqs[r].trace : reqs[r].trace[i].op # "set"
         ELSE /\ reqs[r].trace # <<>>
              /\ reqs[r].trace[1] = ResSet(reqs[r].returned.headers)
              /\ \A i \in DOMAIN reqs[r].trace : reqs[r].trace[i].op = "set" => i = 1

\* The engine set headers before authenticate failed, and none was applied.
C15_Witness ==
  \E r \in Slots :
    /\ Over(r) /\ reqs[r].flow = "authenticate" /\ ~useErrorHandler
    /\ EngineFailed(r) /\ reqs[r].error.kind = "OAuthError"
    /\ DOMAIN reqs[r].returned.headers = {"location", "cache-control"}
    /\ ResCalls(r) = <<ResStatus(reqs[r].error.code), ResSend(JsonBody(reqs[r].error))>>

C17_NoAdvanceOnFailedAuthentication ==
  \A r \in Slots :
    (reqs[r].flow = "authenticate"
       /\ \E i \in DOMAIN reqs[r].trace : reqs[r].trace[i] = CallNext(NoError))
      => reqs[r].fulfilled

C17_Witness ==
  \E r \in Slots :
    /\ Over(r) /\ reqs[r].flow = "authenticate" /\ EngineFailed(r) /\ useErrorHandler
    /\ reqs[r].error.kind = "InvalidTokenError"
    /\ NextCalls(r) = <<>>

(***************************************************************************)
(* C18: once the engine operation settled, every invocation ends having    *)
(* sent or redirected the response or having called next.  authenticate    *)
(* failing with UnauthorizedRequestError only sets the status.             *)
(***************************************************************************)
C18_FinishedOrAdvanced ==
  \A r \in Slots :
    (Over(r) /\ NoRaise(r))
      => \E i \in DOMAIN reqs[r].trace : reqs[r].trace[i].op \in {"send", "redirect", "next"}

(***************************************************************************)
(* C19: res.locals.oauth is written only after the engine operation of the *)
(* same invocation fulfilled, once, with the value it fulfilled with under *)
(* token (authenticate, token) or code (authorize); never on an engine     *)
(* failure and never in revoke.                                            *)
(***************************************************************************)
LocalsWrites(r) ==
  SelectSeq(reqs[r].trace, LAMBDA c : c.op = "locals")

C19_LocalsOnlyFromFulfilment ==
  \A r \in Slots :
    /\ (reqs[r].flow = "revoke" \/ ~reqs[r].fulfilled) => LocalsWrites(r) = <<>>
    /\ (reqs[r].flow \in {"authenticate", "authorize", "token"}
          /\ reqs[r].fulfilled /\ reqs[r].pc # "tap")
         => LocalsWrites(r) = <<SetLocals(LocalsKey(reqs[r].flow), reqs[r].value)>>

C19_Witness ==
  \E r \in Slots :
    /\ Over(r) /\ reqs[r].flow = "revoke" /\ reqs[r].fulfilled
    /\ reqs[r].returned.status = 302
    /\ LocalsWrites(r) = <<>>
    /\ \E i \in DOMAIN reqs[r].trace : reqs[r].trace[i].op = "redirect"

====
